---- MODULE Spec2Model ----
(***************************************************************************)
(* Team-affiliation classifier of the public statistics page               *)
(* (rcongui_public/src/components/game/statistics/game-stats.tsx).         *)
(*                                                                         *)
(* Two state machines share this module:                                   *)
(*   Spec        one call of calcTeam(kills, weapons): Init draws the      *)
(*               arguments, the action Call runs the function and leaves   *)
(*               its locals (weaponsSorted, axisKills, alliesKills, the    *)
(*               number of entries processed) and its return value.        *)
(*   RenderSpec  the GameStats component: the parent fetches stats arrays  *)
(*               and renders the component with (stats, live) props; the   *)
(*               render evaluates useMemo(..., [stats]) and hands          *)
(*               statsWithTeam ?? stats to the table.                      *)
(*                                                                         *)
(* kills * 0.8 is an IEEE double in the source; for integer operands       *)
(* x >= kills * 0.8 agrees with 5 * x >= 4 * kills (checked for every      *)
(* kills up to 200000), so the comparison is modelled in integers.         *)
(***************************************************************************)
EXTENDS Integers, Sequences, FiniteSets, TLC

\* ------------------------------------------------------------------ bounds
MaxKills == 5
MaxCount == 4
MaxLen == 3
MaxRefs == 2

\* ---------------------------------------------------------------- taxonomy
\* The weapon lists of @/types/weapon, one sample identifier per list.
ALL_GER_Weapon == {"Kar98k"}
ALL_GER_ArmorWeapon == {"Panther"}
ALL_US_Weapon == {"M1Garand"}
ALL_US_ArmorWeapon == {"Sherman"}
ALL_RUS_Weapon == {"PPSH41"}
ALL_RUS_ArmorWeapon == {"T34"}
ALL_GB_Weapon == {"LeeEnfield"}
ALL_GB_ArmorWeapon == {"Cromwell"}

\* Keys a weapons record is drawn from: two German (one infantry, one armor
\* list), one Allied, one in no list.  None is an integer-like string, so
\* Object.entries yields them in insertion order.
WeaponNames == {"Kar98k", "Panther", "M1Garand", "UnknownGadget"}

\* threshold = 0.8, kept as the fraction ThresholdNum / ThresholdDen
ThresholdNum == 4
ThresholdDen == 5

TeamLabel == {"axis", "allies", "mixed", "unknown"}

\* ------------------------------------------------------------- calcTeam
\* first branch of the loop body: the name is in a German list
IsAxisWeapon(name) ==
    name \in ALL_GER_Weapon \/ name \in ALL_GER_ArmorWeapon

\* else-if branch of the loop body: the name is in a US, RUS or GB list
IsAlliesWeapon(name) ==
    \/ name \in ALL_US_Weapon \/ name \in ALL_US_ArmorWeapon
    \/ name \in ALL_RUS_Weapon \/ name \in ALL_RUS_ArmorWeapon
    \/ name \in ALL_GB_Weapon \/ name \in ALL_GB_ArmorWeapon

\* x >= kills * threshold
MeetsThreshold_strict(x, k) ==
    x * ThresholdDen > k * ThresholdNum

MeetsThreshold(x, k) ==
    x * ThresholdDen >= k * ThresholdNum

\* the comparator of the sort, ([nameA, countA], [nameB, countB]) => countB - countA
Compare(a, b) ==
    b[2] - a[2]

\* Array.prototype.sort is stable: an entry is placed before the first entry
\* the comparator orders strictly after it, and behind every entry it ties with.
RECURSIVE InsertSorted(_, _)
InsertSorted_unstable(s, e) ==
    IF s = <<>> THEN <<e>>
    ELSE IF Compare(e, Head(s)) <= 0 THEN <<e>> \o s
    ELSE <<Head(s)>> \o InsertSorted(Tail(s), e)

InsertSorted(s, e) ==
    IF s = <<>> THEN <<e>>
    ELSE IF Compare(e, Head(s)) < 0 THEN <<e>> \o s
    ELSE <<Head(s)>> \o InsertSorted(Tail(s), e)

RECURSIVE SortEntries(_)
SortEntries(s) ==
    IF s = <<>> THEN <<>>
    ELSE InsertSorted(SortEntries(SubSeq(s, 1, Len(s) - 1)), s[Len(s)])

\* the two checks after each entry, axis first; "none" = keep looping
ThresholdVerdict_alliesFirst(ax, al, k) ==
    IF MeetsThreshold(al, k) THEN "allies"
    ELSE IF MeetsThreshold(ax, k) THEN "axis"
    ELSE "none"

ThresholdVerdict(ax, al, k) ==
    IF MeetsThreshold(ax, k) THEN "axis"
    ELSE IF MeetsThreshold(al, k) THEN "allies"
    ELSE "none"

\* the statements after the loop
FallThrough_or(ax, al) ==
    IF ax > 0 \/ al > 0 THEN "mixed" ELSE "unknown"

FallThrough_noReturn(ax, al) ==
    IF ax > 0 /\ al > 0 THEN "mixed" ELSE "undefined"

FallThrough(ax, al) ==
    IF ax > 0 /\ al > 0 THEN "mixed" ELSE "unknown"

\* the counters after the entry [name, count]
AddAxis(ax, name, count) ==
    IF IsAxisWeapon(name) THEN ax + count ELSE ax

AddAllies_else(al, name, count) ==
    IF IsAxisWeapon(name) THEN al ELSE al + count

AddAllies(al, name, count) ==
    IF IsAxisWeapon(name) THEN al
    ELSE IF IsAlliesWeapon(name) THEN al + count
    ELSE al

\* the for loop from entry i on, with the counters ax and al; the value is
\* the state of the function at its return
RECURSIVE Loop(_, _, _, _, _)
Loop(k, ws, i, ax, al) ==
    IF i > Len(ws)
    THEN [team |-> FallThrough(ax, al), processed |-> Len(ws),
          axisKills |-> ax, alliesKills |-> al]
    ELSE LET ax2 == AddAxis(ax, ws[i][1], ws[i][2])
             al2 == AddAllies(al, ws[i][1], ws[i][2])
             v == ThresholdVerdict(ax2, al2, k)
         IN IF v # "none"
            THEN [team |-> v, processed |-> i,
                  axisKills |-> ax2, alliesKills |-> al2]
            ELSE Loop(k, ws, i + 1, ax2, al2)

calcTeamRun(k, w) ==
    Loop(k, SortEntries(w), 1, 0, 0)

calcTeam(k, w) ==
    calcTeamRun(k, w).team

\* ------------------------------------------------------------- inputs
\* Object.entries(weapons): sequences of [name, count] with distinct names,
\* in the insertion order of the record
Entries(n) ==
    {s \in [1..n -> WeaponNames \X (0..MaxCount)] :
        \A i, j \in 1..n : i # j => s[i][1] # s[j][1]}

WeaponUsages ==
    UNION {Entries(n) : n \in 0..MaxLen}

VARIABLES
    kills, weapons,           \* arguments of the call
    pc,                       \* "start" before the call, "done" after the return
    weaponsSorted,            \* local of calcTeam
    axisKills, alliesKills,   \* locals of calcTeam at the return
    processed,                \* entries the loop has gone through at the return
    team,                     \* the returned label
    heap,                     \* the stats arrays the parent holds, by reference
    stats, live,              \* current props of GameStats (stats = reference, 0 = not rendered)
    memoDeps,                 \* [stats] of the last evaluation of the memo (0 = none)
    statsWithTeam,            \* memoised value: <<>> is null, <<list>> a list
    data                      \* the data prop handed to DataTable

calcVars == <<kills, weapons, pc, weaponsSorted, axisKills, alliesKills, processed, team>>
renderVars == <<heap, stats, live, memoDeps, statsWithTeam, data>>
vars == <<kills, weapons, pc, weaponsSorted, axisKills, alliesKills, processed, team,
          heap, stats, live, memoDeps, statsWithTeam, data>>

CalcIdle ==
    /\ pc = "start"
    /\ weaponsSorted = <<>>
    /\ axisKills = 0
    /\ alliesKills = 0
    /\ processed = 0
    /\ team = "none"

RenderIdle ==
    /\ heap = <<>>
    /\ stats = 0
    /\ live = FALSE
    /\ memoDeps = 0
    /\ statsWithTeam = <<>>
    /\ data = <<>>

Init ==
    /\ kills \in 0..MaxKills
    /\ weapons \in WeaponUsages
    /\ CalcIdle
    /\ RenderIdle

Call ==
    /\ pc = "start"
    /\ LET r == calcTeamRun(kills, weapons) IN
        /\ weaponsSorted' = SortEntries(weapons)
        /\ axisKills' = r.axisKills
        /\ alliesKills' = r.alliesKills
        /\ processed' = r.processed
        /\ team' = r.team
    /\ pc' = "done"
    /\ UNCHANGED <<kills, weapons>>
    /\ UNCHANGED renderVars

Next == Call

Spec == Init /\ [][Next]_vars

\* ------------------------------------------------------------- GameStats
PlayerIds == {"p1", "p2"}

\* (kills, weapons) of the sample players
SampleRecords ==
    { <<MaxKills, << <<"Kar98k", MaxCount>>, <<"M1Garand", 1>> >> >>,
      <<MaxKills, << <<"M1Garand", MaxCount>> >> >> }

Player(id, rec) ==
    [player_id |-> id, kills |-> rec[1], weapons |-> rec[2]]

\* the stats arrays the parent may pass: players with distinct ids
StatsLists ==
    {<<>>}
    \cup {<<Player(id, r)>> : id \in PlayerIds, r \in SampleRecords}
    \cup {<<Player(ids[1], r), Player(ids[2], q)>> :
            ids \in {x \in PlayerIds \X PlayerIds : x[1] # x[2]},
            r \in SampleRecords, q \in SampleRecords}

\* {...player, team: calcTeam(player.kills, player.weapons)}
WithTeam(player) ==
    [player_id |-> player.player_id, kills |-> player.kills,
     weapons |-> player.weapons,
     team |-> calcTeam(player.kills, player.weapons)]

\* stats.map(player => ...): a new array, the input is read only
MapStats(list) ==
    [i \in 1..Len(list) |-> WithTeam(list[i])]

\* the callback of useMemo: live ? null : stats.map(...)
MemoCallback(l, list) ==
    IF l THEN <<>> ELSE <<MapStats(list)>>

\* useMemo(callback, [stats]): the callback runs on the first render and when
\* the stats reference differs from that of the previous render
UseMemo(ref, l) ==
    IF memoDeps # ref THEN MemoCallback(l, heap[ref]) ELSE statsWithTeam

\* statsWithTeam ?? stats
DataProp(memo, list) ==
    IF memo # <<>> THEN memo[1] ELSE list

RenderInit ==
    /\ kills = 0
    /\ weapons = <<>>
    /\ CalcIdle
    /\ RenderIdle

\* the parent obtains a new stats array
FetchStats(list) ==
    /\ Len(heap) < MaxRefs
    /\ heap' = Append(heap, list)
    /\ UNCHANGED <<stats, live, memoDeps, statsWithTeam, data>>
    /\ UNCHANGED calcVars

\* one execution of the component function with props stats = ref, live = l
Render(ref, l) ==
    /\ ref \in 1..Len(heap)
    /\ stats' = ref
    /\ live' = l
    /\ statsWithTeam' = UseMemo(ref, l)
    /\ memoDeps' = ref
    /\ data' = DataProp(UseMemo(ref, l), heap[ref])
    /\ UNCHANGED heap
    /\ UNCHANGED calcVars

RenderNext ==
    \/ \E list \in StatsLists : FetchStats(list)
    \/ \E ref \in 1..MaxRefs, l \in BOOLEAN : Render(ref, l)

RenderSpec == RenderInit /\ [][RenderNext]_vars

\* ------------------------------------------------------------- properties
\* Vocabulary of the properties, defined from the weapon lists and the
\* arguments only, not from the operators that model calcTeam.
AxisNames == ALL_GER_Weapon \cup ALL_GER_ArmorWeapon

AlliesNames ==
    ALL_US_Weapon \cup ALL_US_ArmorWeapon \cup ALL_RUS_Weapon
    \cup ALL_RUS_ArmorWeapon \cup ALL_GB_Weapon \cup ALL_GB_ArmorWeapon

FactionOf(name) ==
    IF name \in AxisNames THEN "axis"
    ELSE IF name \in AlliesNames THEN "allies"
    ELSE "none"

Opposite(f) == IF f = "axis" THEN "allies" ELSE "axis"

\* kills of faction f among the first n entries of s
RECURSIVE FactionSum(_, _, _)
FactionSum(s, n, f) ==
    IF n = 0 THEN 0
    ELSE FactionSum(s, n - 1, f) + (IF FactionOf(s[n][1]) = f THEN s[n][2] ELSE 0)

RECURSIVE SumCounts(_, _)
SumCounts(s, n) ==
    IF n = 0 THEN 0 ELSE SumCounts(s, n - 1) + s[n][2]

\* count >= 0.8 * N
Reaches(count, n) == 5 * count >= 4 * n

\* position of the entry named nm in s
PosOf(s, nm) == CHOOSE i \in 1..Len(s) : s[i][1] = nm

Done == pc = "done"

\* no counter reaches the threshold after any of the first n sorted entries
NoExitBefore(n) ==
    \A j \in 1..n :
        /\ ~Reaches(FactionSum(weaponsSorted, j, "axis"), kills)
        /\ ~Reaches(FactionSum(weaponsSorted, j, "allies"), kills)

\* entry i of weapons is a recognised weapon with count >= 0.8 * kills
Dominant(i) ==
    /\ FactionOf(weapons[i][1]) # "none"
    /\ Reaches(weapons[i][2], kills)

\* some entry of the faction opposite to entry i also has count >= 0.8 * kills
HasRival(i) ==
    \E j \in 1..Len(weapons) :
        /\ FactionOf(weapons[j][1]) = Opposite(FactionOf(weapons[i][1]))
        /\ Reaches(weapons[j][2], kills)

\* C1 as stated: for kills > 0, a recognised weapon with count >= 0.8 * kills
\* makes calcTeam return the label of its faction, whatever the other entries.
C1_DominanceAnyOthers ==
    (Done /\ kills > 0) =>
        \A i \in 1..Len(weapons) :
            Dominant(i) => team = FactionOf(weapons[i][1])

\* C1 amended: for kills > 0, a recognised weapon with count >= 0.8 * kills
\* makes calcTeam return the label of its faction provided no entry of the
\* opposite faction also has count >= 0.8 * kills; this covers every
\* weaponUsage whose counts sum to at most kills.
C1_DominanceNoRival ==
    (Done /\ kills > 0) =>
        \A i \in 1..Len(weapons) :
            /\ (Dominant(i) /\ ~HasRival(i)) => team = FactionOf(weapons[i][1])
            /\ (Dominant(i) /\ SumCounts(weapons, Len(weapons)) <= kills) =>
                    team = FactionOf(weapons[i][1])

C1_Witness ==
    /\ Done /\ kills > 0 /\ Len(weapons) = 3
    /\ SumCounts(weapons, 3) > kills
    /\ \E i \in 1..3 :
        /\ Dominant(i) /\ ~HasRival(i)
        /\ FactionOf(weapons[i][1]) = "allies"
        /\ weaponsSorted[1] # weapons[i]
    /\ team = "allies"

\* C2: totality: for every argument pair the call returns, and what it returns
\* is one of the four labels.
C2_Totality ==
    /\ pc = "start" => calcTeam(kills, weapons) \in TeamLabel
    /\ Done => team \in TeamLabel

C2_Witness ==
    /\ Done /\ Len(weapons) = 3
    /\ SumCounts(weapons, 3) > kills
    /\ \E i \in 1..3 : FactionOf(weapons[i][1]) = "none"
    /\ \E i \in 1..3 : weapons[i][2] = 0
    /\ team \in TeamLabel

\* C3: when no entry triggers an early return, every entry is processed and
\* the label is mixed iff both final counters are positive, unknown otherwise;
\* an empty weaponUsage gives unknown for every kills.
C3_FallThrough ==
    Done =>
        /\ NoExitBefore(Len(weaponsSorted)) =>
            /\ processed = Len(weaponsSorted)
            /\ team = "mixed" <=> (axisKills > 0 /\ alliesKills > 0)
            /\ team = "unknown" <=> ~(axisKills > 0 /\ alliesKills > 0)
        /\ weapons = <<>> => team = "unknown"

C3_Witness ==
    /\ Done /\ kills > 0 /\ Len(weapons) = 3
    /\ NoExitBefore(3)
    /\ axisKills > 0 /\ alliesKills > 0
    /\ team = "mixed"

\* C4: unrecognised weapons add to neither counter (each counter is the sum
\* of the processed entries of its faction), and for kills > 0 a weaponUsage
\* of unrecognised weapons only ends with both counters 0 and label unknown.
C4_UnrecognisedNoOp ==
    Done =>
        /\ axisKills = FactionSum(weaponsSorted, processed, "axis")
        /\ alliesKills = FactionSum(weaponsSorted, processed, "allies")
        /\ (kills > 0 /\ \A i \in 1..Len(weapons) : FactionOf(weapons[i][1]) = "none") =>
            /\ processed = Len(weapons)
            /\ axisKills = 0 /\ alliesKills = 0
            /\ team = "unknown"

C4_Witness ==
    /\ Done /\ kills > 0 /\ Len(weapons) = 1
    /\ FactionOf(weapons[1][1]) = "none" /\ weapons[1][2] = MaxCount
    /\ axisKills = 0 /\ alliesKills = 0 /\ team = "unknown"

\* C5: for kills = 0 and a non-empty weaponUsage the call returns at the first
\* sorted entry with label axis or allies; {Kar98k: 0} gives axis.
C5_ZeroKillQuirk ==
    (Done /\ kills = 0 /\ weapons # <<>>) =>
        /\ processed = 1
        /\ team \in {"axis", "allies"}
        /\ weapons = << <<"Kar98k", 0>> >> => team = "axis"

C5_Witness ==
    /\ Done /\ kills = 0
    /\ weapons = << <<"Kar98k", 0>> >>
    /\ processed = 1 /\ team = "axis"

\* weaponsSorted holds the entries of weapons by descending count, entries of
\* equal count in their insertion order
StableDescending ==
    /\ Len(weaponsSorted) = Len(weapons)
    /\ {weaponsSorted[i] : i \in 1..Len(weaponsSorted)} = {weapons[i] : i \in 1..Len(weapons)}
    /\ \A i, j \in 1..Len(weaponsSorted) :
        i < j =>
            /\ weaponsSorted[i][2] >= weaponsSorted[j][2]
            /\ weaponsSorted[i][2] = weaponsSorted[j][2] =>
                PosOf(weapons, weaponsSorted[i][1]) < PosOf(weapons, weaponsSorted[j][1])

\* two entries of equal count and opposite factions, each count >= 0.8 * kills
TiedRivals ==
    /\ Len(weapons) = 2
    /\ weapons[1][2] = weapons[2][2]
    /\ FactionOf(weapons[1][1]) # "none"
    /\ FactionOf(weapons[2][1]) = Opposite(FactionOf(weapons[1][1]))
    /\ Reaches(weapons[1][2], kills)

\* C6 as stated: the entries are processed by descending count, ties in
\* insertion order, and for two tied entries of opposite factions that both meet
\* the threshold the label is the faction of the entry inserted first.
C6_OrderAnyKills ==
    Done =>
        /\ StableDescending
        /\ TiedRivals => team = FactionOf(weapons[1][1])

\* C6 amended: as stated, the consequence for tied entries of opposite
\* factions restricted to kills > 0.
C6_OrderPositiveKills ==
    Done =>
        /\ StableDescending
        /\ (TiedRivals /\ kills > 0) => team = FactionOf(weapons[1][1])

C6_Witness ==
    /\ Done /\ kills = MaxKills
    /\ TiedRivals
    /\ weapons[1][1] = "M1Garand" /\ weapons[2][1] = "Kar98k"
    /\ weaponsSorted = weapons
    /\ team = "allies"

\* C8: the label is axis exactly when some sorted entry is the first after which
\* a counter meets the threshold and the axis counter meets it there; allies
\* exactly when at that entry the allies counter meets it and the axis counter
\* does not; the call stops at that entry, so later entries play no part.
C8_EarlyExit ==
    Done =>
        /\ team = "axis" <=>
            \E i \in 1..Len(weaponsSorted) :
                /\ NoExitBefore(i - 1)
                /\ Reaches(FactionSum(weaponsSorted, i, "axis"), kills)
                /\ processed = i
        /\ team = "allies" <=>
            \E i \in 1..Len(weaponsSorted) :
                /\ NoExitBefore(i - 1)
                /\ Reaches(FactionSum(weaponsSorted, i, "allies"), kills)
                /\ ~Reaches(FactionSum(weaponsSorted, i, "axis"), kills)
                /\ processed = i
        /\ team \in {"axis", "allies"} =>
                team = calcTeam(kills, SubSeq(weaponsSorted, 1, processed))

C8_Witness ==
    /\ Done /\ kills > 0 /\ Len(weaponsSorted) = 3
    /\ processed = 2
    /\ team = "axis"
    /\ FactionOf(weaponsSorted[3][1]) = "allies" /\ weaponsSorted[3][2] > 0

\* the full-scan reference: sum both factions first, then decide
FullScan(n, s) ==
    LET A == FactionSum(s, Len(s), "axis")
        L == FactionSum(s, Len(s), "allies")
    IN IF 5 * A >= 4 * n THEN "axis"
       ELSE IF 5 * L >= 4 * n THEN "allies"
       ELSE IF A > 0 /\ L > 0 THEN "mixed"
       ELSE "unknown"

\* C9: for kills > 0 and counts summing to at most kills, calcTeam returns the
\* label of the full-scan reference.
C9_OrderIndependence ==
    (Done /\ kills > 0 /\ SumCounts(weapons, Len(weapons)) <= kills) =>
        team = FullScan(kills, weapons)

C9_Witness ==
    /\ Done /\ kills > 0 /\ Len(weapons) = 3
    /\ SumCounts(weapons, 3) <= kills
    /\ FactionOf(weapons[1][1]) = "allies" /\ weapons[1][2] > 0
    /\ weaponsSorted # weapons
    /\ processed = 2
    /\ team = "axis"

\* the records of stats, each with the team field added
Labelled(list) ==
    [i \in 1..Len(list) |->
        [player_id |-> list[i].player_id, kills |-> list[i].kills,
         weapons |-> list[i].weapons,
         team |-> calcTeam(list[i].kills, list[i].weapons)]]

\* C7: after a render with live false the table's list is the stats list with
\* a team field added to each record, same length and order, and no stats
\* array is changed by a render.
C7_OutputShape ==
    [][ /\ \A r \in 1..Len(heap) : heap'[r] = heap[r]
        /\ (stats' # 0 /\ ~live') => data' = Labelled(heap'[stats']) ]_vars

\* C10: the table's list carries the team labels of the current stats iff
\* live is false; with live true it is the raw stats.
C10_LabelsTrackLive ==
    stats # 0 =>
        /\ ~live => data = Labelled(heap[stats])
        /\ live => data = heap[stats]

====
